---- MODULE Spec2Model ----
(***************************************************************************)
(* Model of github.com/bborbe/service: the Run orchestrator (service_run)  *)
(* with its FilterErrors wrapper, driven through the cancel-on-first-      *)
(* finish runner of github.com/bborbe/run.                                 *)
(*                                                                         *)
(* One Run call is modelled: a caller passes a parent context and a list   *)
(* of task functions; Run wraps each function and hands the list to the    *)
(* runner, which derives a child context, starts one goroutine per task,   *)
(* takes the first result, cancels the child context and returns.          *)
(***************************************************************************)
EXTENDS Integers, Sequences, FiniteSets, TLC

\* Largest number of functions passed to one Run call.
MaxTasks == 2

(***************************************************************************)
(* Error values.  An error is its Unwrap chain, outermost link first; the  *)
(* nil error is the empty chain.  Unwrapping drops the first link.         *)
(***************************************************************************)
Nil == << >>
Canceled == << "context canceled" >>
DeadlineExceeded == << "context deadline exceeded" >>
RealError == << "real error" >>
TestError == << "test error" >>
\* An error wrapping context.Canceled.
WrappedCanceled == << "during shutdown" >> \o Canceled

\* errors.Is(err, target): some error of err's Unwrap chain equals target.
Is(err, target) ==
    \E k \in 1..Len(err) : SubSeq(err, k, Len(err)) = target

\* The value a blocked function returns when it returns ctx.Err().
CtxErr == << "ctx.Err()" >>

(***************************************************************************)
(* One execution of a run.Func: it returns an error value or panics with a *)
(* payload; logs counts the log lines the wrappers wrote for it.           *)
(***************************************************************************)
Returned(v) == [kind |-> "ret", val |-> v, logs |-> 0]
Panicked(p) == [kind |-> "panic", val |-> p, logs |-> 0]

\* The error run.CatchPanic makes of a recovered panic payload: a message
\* derived from the payload, wrapping nothing.
PanicError(p) == << "panic: " \o p[1] >>

\* FilterErrors with errors.Is replaced by ==: only the filtered value
\* itself is suppressed, an error wrapping it is not.
FilterErrorsIdentity(x, filteredErrors) ==
    IF x.kind = "ret" /\ x.val # Nil /\ x.val \in filteredErrors
    THEN [x EXCEPT !.val = Nil]
    ELSE x

\* FilterErrors returning nil where it should return err: every error is
\* suppressed, filtered or not.
FilterErrorsDropsAll(x, filteredErrors) ==
    IF x.kind = "ret" THEN [x EXCEPT !.val = Nil] ELSE x

\* FilterErrors(fn, filteredErrors...) applied to fn's execution x: a
\* non-nil error matching a filtered error becomes nil, any other result
\* (and a panic, which FilterErrors does not recover) is unchanged.
\* A filter that compares with == where FilterErrors uses errors.Is.
FilterErrorsByIdentity(x, filteredErrors) ==
    IF x.kind = "ret" /\ x.val # Nil /\ x.val \in filteredErrors
    THEN [x EXCEPT !.val = Nil]
    ELSE x

FilterErrors(x, filteredErrors) ==
    IF x.kind = "ret" /\ x.val # Nil
       /\ \E filteredError \in filteredErrors : Is(x.val, filteredError)
    THEN [x EXCEPT !.val = Nil]
    ELSE x

\* run.CatchPanic: a panic of the wrapped function is recovered and returned
\* as an error; a returned result is unchanged.
CatchPanic(x) ==
    IF x.kind = "panic"
    THEN [x EXCEPT !.kind = "ret", !.val = PanicError(x.val)]
    ELSE x

\* run.LogErrors: a non-nil result is logged and returned unchanged.
LogErrors(x) ==
    IF x.kind = "ret" /\ x.val # Nil
    THEN [x EXCEPT !.logs = @ + 1]
    ELSE x

\* Run's wrapping without the panic guard.
WrapFuncNoCatchPanic(x) == LogErrors(FilterErrors(x, {Canceled}))

\* Run's wrapping without the context.Canceled filter.
WrapFuncNoFilter(x) == LogErrors(CatchPanic(x))

\* Run's wrapping with the identity filter.
WrapFuncIdentityFilter(x) ==
    LogErrors(CatchPanic(FilterErrorsIdentity(x, {Canceled})))

\* Run's wrapping with the logging innermost.
WrapFuncLogsFirst(x) == CatchPanic(FilterErrors(LogErrors(x), {Canceled}))

\* Wrappers whose filter drops context.DeadlineExceeded as well.
WrapFuncFiltersDeadline(x) ==
    LogErrors(CatchPanic(FilterErrors(x, {Canceled, DeadlineExceeded})))

\* The function Run stores back into funcs[i], applied to the execution x of
\* the original funcs[i].
WrapFunc(x) == LogErrors(CatchPanic(FilterErrors(x, {Canceled})))

\* The function at a slot of funcs that Run has overwritten depth times,
\* applied to the execution x of the function the caller put there.
RECURSIVE Wrapped(_, _)
Wrapped(x, depth) ==
    IF depth = 0 THEN x ELSE WrapFunc(Wrapped(x, depth - 1))


(***************************************************************************)
(* The functions a caller passes to Run.  A function returns a value at    *)
(* once, panics at once, or blocks on <-ctx.Done() and then returns        *)
(* ctx.Err() or a value of its own.                                        *)
(***************************************************************************)
ReturnValues == {Nil, RealError, Canceled, WrappedCanceled, DeadlineExceeded}
PanicPayloads == {<< "test panic" >>, << "context canceled" >>}
BlockValues == {CtxErr, Canceled, TestError}

Funcs ==
    {[kind |-> "return", val |-> v] : v \in ReturnValues}
    \cup {[kind |-> "panic", val |-> p] : p \in PanicPayloads}
    \cup {[kind |-> "block", val |-> v] : v \in BlockValues}

VARIABLES
    funcs,        \* the functions passed to Run, in order
    wraps,        \* how often Run has overwritten each slot of funcs
    parentErr,    \* Err() of the context passed to Run (Nil: not done)
    childErr,     \* Err() of the context the runner derives (Nil: not done)
    cancelCount,  \* calls the runner has made to the child's cancel func
    runPc,        \* position of the Run call
    runResult,    \* the error Run returns
    launched,     \* goroutines the runner has started
    pc,           \* position of each task's goroutine
    handle,       \* the context each started task was given
    raw,          \* the execution of each original function, once finished
    sawDone,      \* whether a task's context was done when it finished
    pending,      \* the result a finished task has yet to deliver
    results,      \* the results delivered to the runner, in order of arrival
    logged,       \* log lines written for each task
    crashed,      \* an unrecovered panic has terminated the process
    launchedAfter \* how many results had been delivered when a task started

vars == << funcs, wraps, parentErr, childErr, cancelCount, runPc, runResult,
           launched, pc, handle, raw, sawDone, pending, results, logged,
           crashed, launchedAfter >>

(***************************************************************************)
(* State of the other parts of the package, each exercised by a            *)
(* specification of its own and parked while another one runs.             *)
(***************************************************************************)
VARIABLES
    fResult,      \* FilterErrors: the execution of the function given to it
    fFiltered,    \* FilterErrors: the filteredErrors given to it
    fOut,         \* FilterErrors: the execution of the function it returned
    fCalls,       \* FilterErrors: calls made to the function given to it
    fCtx,         \* FilterErrors: the handle the returned functions get
    fInnerCtx,    \* FilterErrors: the handles the function given to it got
    fTwice        \* FilterErrors: the execution of the function returned
                  \* for the function it returned, with the same errors

filterVars == << fResult, fFiltered, fOut, fCalls, fCtx, fInnerCtx, fTwice >>

VARIABLES
    svcClient,    \* service.sentryClient, bound by NewService
    svcPc,        \* position of the current Service.Run invocation
    svcCtx,       \* the context each Service.Run invocation was given
    appCalls,     \* the calls made to service.app.Run, as [ctx, client]
    appReturns,   \* the error each call of Application.Run returned
    captured,     \* the calls made to CaptureException, as
                  \* [run, err, ctx, client]
    svcReturns    \* the error each Service.Run invocation returned

serviceVars == << svcClient, svcPc, svcCtx, appCalls, appReturns, captured,
                 svcReturns >>

VARIABLES
    oFns,         \* NewOptions: the fns given to it
    oOptions,     \* NewOptions: ExcludeErrors of the Options it returned
    oErr,         \* the error the caller asks the predicates about
    oExcluded,    \* what the caller's loop over the predicates found
    oPc           \* position of the caller of NewOptions

optionsVars == << oFns, oOptions, oErr, oExcluded, oPc >>

VARIABLES
    mEntry,       \* the entry point called: Main or MainCmd
    mParseErr,    \* whether parsing the arguments of app fails
    mDSN,         \* sentryDSN: "nil" or "dsn"
    mClientErr,   \* whether libsentry.NewClient fails
    mFns,         \* the fns given to Main
    mApp,         \* what the application's Run does
    mPc,          \* position of the entry point
    mExit,        \* the exit code returned (-1: none yet)
    mExclude,     \* the ExcludeErrors the sentry client was created with
    mClientCalls  \* the calls Main made on the sentry client, in order

mainVars == << mEntry, mParseErr, mDSN, mClientErr, mFns, mApp, mPc, mExit,
              mExclude, mClientCalls >>

VARIABLES
    sigParentDone, \* whether the context given to contextWithSig is done
    sigCtxDone,    \* whether the context contextWithSig returned is done
    sigPc,         \* position of the goroutine contextWithSig starts
    sigChan,       \* the signals buffered in signalCh
    sigChanClosed, \* whether signalCh has been closed
    sigNotified,   \* whether signalCh is registered with signal.Notify
    sigGot,        \* the signal the goroutine received from signalCh
    sigArrived,    \* number of signals sent to the process so far
    sigDelivered,  \* number of signals put into signalCh so far
    sigProc        \* the process: "running", "killed" or "panicked"

sigVars == << sigParentDone, sigCtxDone, sigPc, sigChan, sigChanClosed,
             sigNotified, sigGot, sigArrived, sigDelivered, sigProc >>

\* Everything but the state of a Run call.
notRunVars == << filterVars, serviceVars, optionsVars, mainVars, sigVars >>

\* Everything but the state of a FilterErrors call.
notFilterVars == << vars, serviceVars, optionsVars, mainVars, sigVars >>

\* Everything but the state of a Service.
notServiceVars == << vars, filterVars, optionsVars, mainVars, sigVars >>

\* Everything but the state of a NewOptions call.
notOptionsVars == << vars, filterVars, serviceVars, mainVars, sigVars >>

Tasks == 1..Len(funcs)

NotRun == [kind |-> "none", val |-> Nil, logs |-> 0]

\* Err() of the context held by task i.
HandleErr(i) ==
    CASE handle[i] = "child" -> childErr
      [] handle[i] = "parent" -> parentErr
      [] OTHER -> Nil

\* <-ctx.Done() of the context held by task i would not block.
HandleDone(i) == HandleErr(i) # Nil

\* The execution of the original function i under its context.
Execute(i) ==
    CASE funcs[i].kind = "return" -> Returned(funcs[i].val)
      [] funcs[i].kind = "panic" -> Panicked(funcs[i].val)
      [] funcs[i].kind = "block" ->
            Returned(IF funcs[i].val = CtxErr THEN HandleErr(i)
                     ELSE funcs[i].val)

\* No FilterErrors call is under way.
FilterIdle ==
    /\ fResult = NotRun
    /\ fFiltered = {}
    /\ fOut = NotRun
    /\ fCalls = 0
    /\ fCtx = "none"
    /\ fInnerCtx = << >>
    /\ fTwice = NotRun

\* No Service has been constructed.
ServiceIdle ==
    /\ svcClient = "none"
    /\ svcPc = "none"
    /\ svcCtx = << >>
    /\ appCalls = << >>
    /\ appReturns = << >>
    /\ captured = << >>
    /\ svcReturns = << >>

\* NewOptions has not been called.
OptionsIdle ==
    /\ oFns = << >>
    /\ oOptions = << >>
    /\ oErr = Nil
    /\ oExcluded = FALSE
    /\ oPc = "none"

\* No entry point has been called.
MainIdle ==
    /\ mEntry = "none"
    /\ mParseErr = FALSE
    /\ mDSN = "nil"
    /\ mClientErr = FALSE
    /\ mFns = << >>
    /\ mApp = [kind |-> "none"]
    /\ mPc = "none"
    /\ mExit = -1
    /\ mExclude = << >>
    /\ mClientCalls = << >>

\* contextWithSig has not been called.
SigIdle ==
    /\ sigParentDone = FALSE
    /\ sigCtxDone = FALSE
    /\ sigPc = "none"
    /\ sigChan = << >>
    /\ sigChanClosed = FALSE
    /\ sigNotified = FALSE
    /\ sigGot = "none"
    /\ sigArrived = 0
    /\ sigDelivered = 0
    /\ sigProc = "running"

Init ==
    /\ FilterIdle
    /\ ServiceIdle
    /\ OptionsIdle
    /\ MainIdle
    /\ SigIdle
    /\ funcs \in UNION {[1..k -> Funcs] : k \in 0..MaxTasks}
    /\ wraps = [i \in Tasks |-> 0]
    /\ parentErr = Nil
    /\ childErr = Nil
    /\ cancelCount = 0
    /\ runPc = "idle"
    /\ runResult = Nil
    /\ launched = 0
    /\ pc = [i \in Tasks |-> "unstarted"]
    /\ handle = [i \in Tasks |-> "none"]
    /\ raw = [i \in Tasks |-> NotRun]
    /\ sawDone = [i \in Tasks |-> FALSE]
    /\ pending = [i \in Tasks |-> Nil]
    /\ results = << >>
    /\ logged = [i \in Tasks |-> 0]
    /\ crashed = FALSE
    /\ launchedAfter = [i \in Tasks |-> 0]

\* Run has not been given anything to run.
RunIdle ==
    /\ funcs = << >>
    /\ wraps = << >>
    /\ parentErr = Nil
    /\ childErr = Nil
    /\ cancelCount = 0
    /\ runPc = "idle"
    /\ runResult = Nil
    /\ launched = 0
    /\ pc = << >>
    /\ handle = << >>
    /\ raw = << >>
    /\ sawDone = << >>
    /\ pending = << >>
    /\ results = << >>
    /\ logged = << >>
    /\ crashed = FALSE
    /\ launchedAfter = << >>

\* context.WithCancel(ctx): the child is done from the start when the
\* parent already is, and becomes done when the parent does.
ChildDerived == runPc \in {"launching", "waiting", "cancelled", "returned"}
                /\ Len(funcs) > 0

\* The owner of the parent context cancels it, or its deadline passes.
ParentCancel ==
    /\ ~crashed
    /\ parentErr = Nil
    /\ \E e \in {Canceled, DeadlineExceeded} :
        /\ parentErr' = e
        /\ childErr' = IF ChildDerived /\ childErr = Nil THEN e ELSE childErr
    /\ UNCHANGED << funcs, wraps, cancelCount, runPc, runResult, launched,
                    pc, handle, raw, sawDone, pending, results, logged,
                    crashed >>
    /\ UNCHANGED launchedAfter
    /\ UNCHANGED notRunVars

\* Entry of the runner without the check for an empty list.
CancelOnFirstFinishWaitNoEmptyCheck ==
    /\ runPc' = "launching"
    /\ childErr' = parentErr
    /\ UNCHANGED runResult

\* Entry of run.CancelOnFirstFinishWait(ctx, funcs...): with no function it
\* returns nil at once; otherwise it derives the child context.
CancelOnFirstFinishWait ==
    IF Len(funcs) = 0
    THEN /\ runPc' = "returned"
         /\ runResult' = Nil
         /\ UNCHANGED childErr
    ELSE /\ runPc' = "launching"
         /\ childErr' = parentErr
         /\ UNCHANGED runResult

\* A Run that wraps the functions it was first given and leaves the wrapped
\* forms out of the caller's list.
RunWrapsAfresh ==
    /\ ~crashed
    /\ runPc = "idle"
    /\ wraps' = [i \in Tasks |-> 1]
    /\ CancelOnFirstFinishWait
    /\ UNCHANGED << funcs, parentErr, cancelCount, launched, pc, handle,
                    raw, sawDone, pending, results, logged, crashed >>
    /\ UNCHANGED launchedAfter
    /\ UNCHANGED notRunVars

\* Run(ctx, funcs...): every funcs[i] is overwritten by its wrapped form
\* and the list goes to the runner.
Run ==
    /\ ~crashed
    /\ runPc = "idle"
    /\ wraps' = [i \in Tasks |-> wraps[i] + 1]
    /\ CancelOnFirstFinishWait
    /\ UNCHANGED << funcs, parentErr, cancelCount, launched, pc, handle,
                    raw, sawDone, pending, results, logged, crashed >>
    /\ UNCHANGED launchedAfter
    /\ UNCHANGED notRunVars

\* A runner that starts no further function once one has delivered its
\* result.
LaunchUntilFirstResult ==
    /\ ~crashed
    /\ runPc = "launching"
    /\ launched < Len(funcs)
    /\ IF results = << >>
       THEN /\ launched' = launched + 1
            /\ pc' = [pc EXCEPT ![launched + 1] = "ready"]
            /\ handle' = [handle EXCEPT ![launched + 1] = "child"]
            /\ launchedAfter' = [launchedAfter EXCEPT ![launched + 1] = 0]
            /\ runPc' = IF launched + 1 = Len(funcs) THEN "waiting"
                        ELSE "launching"
       ELSE /\ runPc' = "waiting"
            /\ UNCHANGED << launched, pc, handle, launchedAfter >>
    /\ UNCHANGED << funcs, wraps, parentErr, childErr, cancelCount,
                    runResult, raw, sawDone, pending, results, logged,
                    crashed >>
    /\ UNCHANGED notRunVars

\* The runner starts the goroutine of the next function with the child
\* context.
Launch ==
    /\ ~crashed
    /\ runPc = "launching"
    /\ launched < Len(funcs)
    /\ launched' = launched + 1
    /\ pc' = [pc EXCEPT ![launched + 1] = "ready"]
    /\ handle' = [handle EXCEPT ![launched + 1] = "child"]
    /\ launchedAfter' = [launchedAfter EXCEPT ![launched + 1] = Len(results)]
    /\ runPc' = IF launched + 1 = Len(funcs) THEN "waiting" ELSE "launching"
    /\ UNCHANGED << funcs, wraps, parentErr, childErr, cancelCount,
                    runResult, raw, sawDone, pending, results, logged,
                    crashed >>
    /\ UNCHANGED notRunVars

\* The goroutine of task i is scheduled and calls the wrapped function.
TaskBegin(i) ==
    /\ ~crashed
    /\ pc[i] = "ready"
    /\ pc' = [pc EXCEPT ![i] = "running"]
    /\ UNCHANGED << funcs, wraps, parentErr, childErr, cancelCount, runPc,
                    runResult, launched, handle, raw, sawDone, pending,
                    results, logged, crashed >>
    /\ UNCHANGED launchedAfter
    /\ UNCHANGED notRunVars

\* The wrapped function of task i finishes: the original function returns
\* or panics (a blocking one only once its context is done) and the wrappers
\* transform the result, which the goroutine then holds.  A panic the
\* wrappers did not recover terminates the process.
TaskFinish(i) ==
    /\ ~crashed
    /\ pc[i] = "running"
    /\ funcs[i].kind = "block" => HandleDone(i)
    /\ LET x == Execute(i)
           w == Wrapped(x, wraps[i])
       IN  /\ raw' = [raw EXCEPT ![i] = x]
           /\ sawDone' = [sawDone EXCEPT ![i] = HandleDone(i)]
           /\ logged' = [logged EXCEPT ![i] = @ + w.logs]
           /\ IF w.kind = "panic"
              THEN /\ crashed' = TRUE
                   /\ pc' = [pc EXCEPT ![i] = "done"]
                   /\ UNCHANGED pending
              ELSE /\ pending' = [pending EXCEPT ![i] = w.val]
                   /\ pc' = [pc EXCEPT ![i] = "finished"]
                   /\ UNCHANGED crashed
    /\ UNCHANGED << funcs, wraps, parentErr, childErr, cancelCount, runPc,
                    runResult, launched, handle, results >>
    /\ UNCHANGED launchedAfter
    /\ UNCHANGED notRunVars

\* The goroutine of task i delivers the result of its function to the
\* runner and ends.
TaskDeliver(i) ==
    /\ ~crashed
    /\ pc[i] = "finished"
    /\ results' = Append(results, [task |-> i, val |-> pending[i]])
    /\ pc' = [pc EXCEPT ![i] = "done"]
    /\ UNCHANGED << funcs, wraps, parentErr, childErr, cancelCount, runPc,
                    runResult, launched, handle, raw, sawDone, pending,
                    logged, crashed >>
    /\ UNCHANGED launchedAfter
    /\ UNCHANGED notRunVars

\* The runner taking a result every time one arrives, cancelling each time.
FirstFinishEveryResult ==
    /\ ~crashed
    /\ runPc \in {"waiting", "cancelled"}
    /\ Len(results) > cancelCount
    /\ runResult' = results[cancelCount + 1].val
    /\ cancelCount' = cancelCount + 1
    /\ childErr' = IF childErr = Nil THEN Canceled ELSE childErr
    /\ runPc' = "cancelled"
    /\ UNCHANGED << funcs, wraps, parentErr, launched, pc, handle, raw,
                    sawDone, pending, results, logged, crashed >>
    /\ UNCHANGED launchedAfter
    /\ UNCHANGED notRunVars

\* The runner taking the first result without cancelling the child context.
FirstFinishNoCancel ==
    /\ ~crashed
    /\ runPc = "waiting"
    /\ Len(results) > 0
    /\ runResult' = results[1].val
    /\ runPc' = "cancelled"
    /\ UNCHANGED << funcs, wraps, parentErr, childErr, cancelCount,
                    launched, pc, handle, raw, sawDone, pending, results,
                    logged, crashed >>
    /\ UNCHANGED launchedAfter
    /\ UNCHANGED notRunVars

\* A runner that cancels the context it was given along with the child.
FirstFinishCancelsParent ==
    /\ ~crashed
    /\ runPc = "waiting"
    /\ Len(results) > 0
    /\ runResult' = results[1].val
    /\ cancelCount' = cancelCount + 1
    /\ childErr' = IF childErr = Nil THEN Canceled ELSE childErr
    /\ parentErr' = IF parentErr = Nil THEN Canceled ELSE parentErr
    /\ runPc' = "cancelled"
    /\ UNCHANGED << funcs, wraps, launched, pc, handle, raw,
                    sawDone, pending, results, logged, crashed >>
    /\ UNCHANGED launchedAfter
    /\ UNCHANGED notRunVars

\* The runner takes the first result to arrive, keeps it as its own result
\* and cancels the child context.
FirstFinish ==
    /\ ~crashed
    /\ runPc = "waiting"
    /\ Len(results) > 0
    /\ runResult' = results[1].val
    /\ cancelCount' = cancelCount + 1
    /\ childErr' = IF childErr = Nil THEN Canceled ELSE childErr
    /\ runPc' = "cancelled"
    /\ UNCHANGED << funcs, wraps, parentErr, launched, pc, handle, raw,
                    sawDone, pending, results, logged, crashed >>
    /\ UNCHANGED launchedAfter
    /\ UNCHANGED notRunVars

\* The runner returning only after every task has finished.
ReturnAfterAllTasks ==
    /\ ~crashed
    /\ runPc = "cancelled"
    /\ \A i \in Tasks : pc[i] = "done"
    /\ runPc' = "returned"
    /\ UNCHANGED << funcs, wraps, parentErr, childErr, cancelCount,
                    runResult, launched, pc, handle, raw, sawDone, pending,
                    results, logged, crashed >>
    /\ UNCHANGED launchedAfter
    /\ UNCHANGED notRunVars

\* The runner, and with it Run, returns to the caller.
Return ==
    /\ ~crashed
    /\ runPc = "cancelled"
    /\ runPc' = "returned"
    /\ UNCHANGED << funcs, wraps, parentErr, childErr, cancelCount,
                    runResult, launched, pc, handle, raw, sawDone, pending,
                    results, logged, crashed >>
    /\ UNCHANGED launchedAfter
    /\ UNCHANGED notRunVars

Next ==
    \/ ParentCancel
    \/ Run
    \/ Launch
    \/ \E i \in Tasks : TaskBegin(i)
    \/ \E i \in Tasks : TaskFinish(i)
    \/ \E i \in Tasks : TaskDeliver(i)
    \/ FirstFinish
    \/ Return

Spec == Init /\ [][Next]_vars


(***************************************************************************)
(* Properties of one Run call.                                             *)
(***************************************************************************)

\* The runner has taken a first result.
ResultTaken == runPc \in {"cancelled", "returned"} /\ Len(funcs) > 0

\* The task whose result arrived first.
FirstFinisher == results[1].task

HasReturned == runPc = "returned"

\* Function i returns a non-nil error that Run does not filter, at once.
ReturnsError(i) ==
    /\ funcs[i].kind = "return"
    /\ funcs[i].val # Nil
    /\ ~Is(funcs[i].val, Canceled)

\* Function i blocks until its context is done and then returns ctx.Err()
\* or context.Canceled.
BlocksUntilCancelled(i) ==
    funcs[i].kind = "block" /\ funcs[i].val \in {CtxErr, Canceled}

\* Exactly task e returns an error at once, every other task blocks.
OneErrorRestBlock(e) ==
    /\ ReturnsError(e)
    /\ \A j \in Tasks \ {e} : BlocksUntilCancelled(j)

\* Task i is still inside its function, blocked on its context.
StillBlocked(i) == pc[i] = "running" /\ funcs[i].kind = "block"

\* C1 as stated (first-finish wins): when exactly one task returns a
\* non-filtered error E at once and every other task blocks until its
\* context is done, Run returns E, in every interleaving.
C1_AlwaysFirstError ==
    \A e \in Tasks :
        (OneErrorRestBlock(e) /\ HasReturned) => runResult = funcs[e].val

\* C1 amended: the same, in every interleaving in which the parent context
\* has not been cancelled by the time Run returns; no sibling's
\* cancellation result then replaces E.
C1_FirstFinishWins ==
    \A e \in Tasks :
        (OneErrorRestBlock(e) /\ HasReturned /\ parentErr = Nil)
        => runResult = funcs[e].val

C1_Witness ==
    /\ HasReturned
    /\ Len(funcs) = 2
    /\ OneErrorRestBlock(1)
    /\ runResult = RealError
    /\ parentErr = Nil
    /\ pc[2] = "done"
    /\ raw[2].val = Canceled

\* C2 (cancellation propagation): in every state in which Run has returned,
\* the child context is cancelled and the context of every task is done.
C2_CancellationPropagation ==
    (HasReturned /\ Len(funcs) > 0)
    => /\ childErr # Nil
       /\ \A i \in Tasks : HandleDone(i)

C2_Witness ==
    /\ HasReturned
    /\ parentErr = Nil
    /\ \E i \in Tasks : StillBlocked(i) /\ HandleDone(i)

\* C3 (a panic counts as finishing): a task that panicked has delivered the
\* error made of its panic to the runner like any returned error, and when
\* it is the first to finish, the runner has cancelled the child context,
\* every task's context is done and Run's result is that error.
C3_PanicCountsAsFinish ==
    /\ \A i \in Tasks :
        raw[i].kind = "panic"
        => /\ ~crashed
           /\ pc[i] = "finished" => pending[i] = PanicError(raw[i].val)
           /\ pc[i] = "done"
                => \E k \in 1..Len(results) :
                    results[k] = [task |-> i, val |-> PanicError(raw[i].val)]
    /\ (ResultTaken /\ raw[FirstFinisher].kind = "panic")
        => /\ runResult = PanicError(raw[FirstFinisher].val)
           /\ cancelCount = 1
           /\ \A j \in Tasks : HandleDone(j)

C3_Witness ==
    /\ HasReturned
    /\ ResultTaken
    /\ raw[FirstFinisher].kind = "panic"
    /\ parentErr = Nil
    /\ \E j \in Tasks : StillBlocked(j) /\ HandleDone(j)

\* C4 as stated (panic containment): no panic escapes Run, and whenever Run
\* returns after some task has panicked, it returns a non-nil error.
C4_AnyPanicGivesError ==
    [][(/\ runPc = "cancelled"
        /\ runPc' = "returned"
        /\ \E i \in Tasks : raw[i].kind = "panic")
       => (~crashed' /\ runResult' # Nil)]_vars

\* C4 amended: no panic escapes Run, whatever the payload, and when the
\* panicking task is the first to finish Run returns a non-nil error.
C4_PanicContainment ==
    /\ ~crashed
    /\ (ResultTaken /\ raw[FirstFinisher].kind = "panic") => runResult # Nil

C4_Witness ==
    /\ HasReturned
    /\ ResultTaken
    /\ Len(funcs) = 2
    /\ raw[FirstFinisher] = Panicked(<< "context canceled" >>)
    /\ runResult # Nil
    /\ ~crashed

\* C5 (success also ends the group): when the first task to finish returned
\* nil, the child context has been cancelled and every task's context is
\* done by the time Run returns, and Run's result is nil.
C5_SuccessEndsGroup ==
    (ResultTaken /\ raw[FirstFinisher] = Returned(Nil))
    => /\ runResult = Nil
       /\ cancelCount = 1
       /\ childErr # Nil
       /\ \A j \in Tasks : HandleDone(j)

C5_Witness ==
    /\ HasReturned
    /\ ResultTaken
    /\ funcs[FirstFinisher] = [kind |-> "return", val |-> Nil]
    /\ parentErr = Nil
    /\ \E j \in Tasks : StillBlocked(j) /\ HandleDone(j)

\* C6 (no wait for the losers): once the first result is taken, Run can
\* return whatever the other tasks are doing; all it has done for them is
\* cancel their context.
C6_ReturnsAfterFirst ==
    (runPc = "cancelled")
    => /\ ENABLED Return
       /\ \A j \in Tasks : HandleDone(j)

\* Run has returned while a losing task has not.
C6_Witness ==
    /\ HasReturned
    /\ ResultTaken
    /\ \E j \in Tasks : pc[j] \in {"ready", "running"}

\* C7 (single cancellation, single result): the runner cancels the child
\* context at most once, and once it has taken a result that result is the
\* first one delivered, whatever other results have arrived.
C7_SingleCancelSingleResult ==
    /\ cancelCount <= 1
    /\ ResultTaken
        => /\ cancelCount = 1
           /\ runResult = results[1].val
    /\ ~ResultTaken => cancelCount = 0

\* Two tasks had both delivered a result before anything was cancelled.
C7_Witness ==
    /\ HasReturned
    /\ ResultTaken
    /\ Len(results) >= 2
    /\ ~sawDone[results[2].task]
    /\ results[1].val # results[2].val
    /\ parentErr = Nil

\* C8 (no tasks): a Run call with no function has returned nil as soon as
\* it is made, with no goroutine started, no context derived or cancelled,
\* whether or not the parent context is done.
C8_NoFunctions ==
    (Len(funcs) = 0 /\ runPc # "idle")
    => /\ HasReturned
       /\ runResult = Nil
       /\ launched = 0
       /\ cancelCount = 0
       /\ childErr = Nil

C8_Witness ==
    /\ Len(funcs) = 0
    /\ HasReturned
    /\ parentErr = Nil

\* C9 (cancellation is no failure): when the first task to finish returned
\* context.Canceled or an error wrapping it, Run's result is nil.
C9_CanceledIsNoFailure ==
    (/\ ResultTaken
     /\ raw[FirstFinisher].kind = "ret"
     /\ Is(raw[FirstFinisher].val, Canceled))
    => runResult = Nil

C9_Witness ==
    /\ HasReturned
    /\ ResultTaken
    /\ raw[FirstFinisher] = Returned(WrappedCanceled)
    /\ \A i \in Tasks : pc[i] = "done" /\ Is(raw[i].val, Canceled)
    /\ Len(funcs) = 2

\* Every function blocks on its context and returns ctx.Err().
AllReturnCtxErr ==
    \A i \in Tasks : funcs[i] = [kind |-> "block", val |-> CtxErr]

\* C10 (parent cancellation propagates): once the parent context is done,
\* before or during Run, the derived child context and the context of every
\* started task are done; and when the parent was cancelled and every task
\* returns its context error, Run returns nil.
C10_ParentCancellation ==
    /\ (parentErr # Nil /\ ChildDerived)
        => /\ childErr # Nil
           /\ \A i \in Tasks : pc[i] # "unstarted" => HandleDone(i)
    /\ (HasReturned /\ Len(funcs) > 0 /\ AllReturnCtxErr
        /\ parentErr = Canceled)
        => runResult = Nil

C10_Witness ==
    /\ HasReturned
    /\ Len(funcs) = 2
    /\ AllReturnCtxErr
    /\ parentErr = Canceled
    /\ \A i \in Tasks : pc[i] = "done" /\ raw[i] = Returned(Canceled)
    /\ cancelCount = 1


(***************************************************************************)
(* C11: once the runner has left its launch loop, every task passed to Run *)
(* has been started, each with the one child context the runner derived;   *)
(* a task is started once only (a started task never becomes unstarted or  *)
(* ready again), and the later tasks are started however early an earlier  *)
(* one delivered its result.                                               *)
(***************************************************************************)
AllStarted ==
    /\ launched = Len(funcs)
    /\ \A i \in Tasks : pc[i] # "unstarted" /\ handle[i] = "child"

StartedOnce ==
    \A i \in Tasks :
        /\ pc[i] # "unstarted" => pc'[i] # "unstarted"
        /\ pc[i] \notin {"unstarted", "ready"} => pc'[i] # "ready"
        /\ handle[i] # "none" => handle'[i] = handle[i]

C11_EveryTaskStarted ==
    /\ [](ChildDerived /\ runPc # "launching" => AllStarted)
    /\ [][StartedOnce]_vars

\* Run has returned and a task was started after an earlier one had
\* already delivered its result.
C11_Witness ==
    /\ HasReturned
    /\ AllStarted
    /\ \E i \in Tasks : launchedAfter[i] > 0


(***************************************************************************)
(* Scheduling: the caller gets to call Run, the runner's own goroutine and *)
(* the goroutine of every started task keep being scheduled.  Nothing      *)
(* obliges the owner of the parent context to cancel it.                   *)
(***************************************************************************)
Fairness ==
    /\ WF_vars(Run)
    /\ WF_vars(Launch)
    /\ WF_vars(FirstFinish)
    /\ WF_vars(Return)
    /\ \A i \in 1..MaxTasks :
        /\ WF_vars(i \in Tasks /\ TaskBegin(i))
        /\ WF_vars(i \in Tasks /\ TaskFinish(i))
        /\ WF_vars(i \in Tasks /\ TaskDeliver(i))

\* The functions of the runs checked for termination: one that succeeds, one
\* that fails, one that panics and one that waits for its context.
FairFuncs ==
    {[kind |-> "return", val |-> Nil],
     [kind |-> "return", val |-> RealError],
     [kind |-> "panic", val |-> << "test panic" >>],
     [kind |-> "block", val |-> CtxErr]}

FairInit == Init /\ \A i \in Tasks : funcs[i] \in FairFuncs

FairSpec == FairInit /\ [][Next]_vars /\ Fairness

\* Function i finishes without waiting for its context.
FinishesOnItsOwn(i) == funcs[i].kind # "block"

(***************************************************************************)
(* C12: under fair scheduling a Run call with at least one task returns    *)
(* once some task finishes on its own or the parent context is cancelled   *)
(* (every modelled task returns when its context is done).                 *)
(***************************************************************************)
C12_RunTerminates ==
    (/\ Len(funcs) > 0
     /\ \/ \E i \in Tasks : FinishesOnItsOwn(i)
        \/ parentErr # Nil)
    ~> HasReturned

\* Run has returned although every task blocks until its context is done:
\* the cancellation of the parent ended it.
C12_Witness ==
    /\ HasReturned
    /\ Len(funcs) = MaxTasks
    /\ \A i \in Tasks : ~FinishesOnItsOwn(i)
    /\ parentErr # Nil


(***************************************************************************)
(* FilterErrors on its own: a function with a given result is handed to    *)
(* FilterErrors with a list of filtered errors and the returned function   *)
(* is called.                                                              *)
(***************************************************************************)
MaxWrapDepth == 2

\* errors.Wrap(ctx, err, message): an error whose chain is err's, one link
\* longer.
Wrap(err, message) == << message >> \o err

\* err behind n further wraps.
RECURSIVE WrapN(_, _)
WrapN(err, n) == IF n = 0 THEN err ELSE Wrap(WrapN(err, n - 1), "wrapped")

BaseErrors == {Canceled, DeadlineExceeded, TestError, RealError}

\* The errors a function may return: a base error behind up to MaxWrapDepth
\* wraps.
Errors == {WrapN(e, n) : e \in BaseErrors, n \in 0..MaxWrapDepth}

\* The values a caller may ask FilterErrors to filter.
FilterTargets == {Canceled, DeadlineExceeded, TestError, WrapN(Canceled, 1)}

\* The contexts a caller passes.
Contexts == {"ctxA", "ctxB"}

FilterInit ==
    /\ RunIdle
    /\ ServiceIdle
    /\ OptionsIdle
    /\ MainIdle
    /\ SigIdle
    /\ fResult \in {Returned(e) : e \in {Nil} \cup Errors}
    /\ fFiltered \in SUBSET FilterTargets
    /\ fOut = NotRun
    /\ fCalls = 0
    /\ fCtx \in Contexts
    /\ fInnerCtx = << >>
    /\ fTwice = NotRun

\* The function FilterErrors returned is called with fCtx: it calls the
\* function it was given with fCtx and filters what that returns.
FilterCall ==
    /\ fResult.kind # "none"
    /\ fCalls = 0
    /\ fOut' = FilterErrors(fResult, fFiltered)
    /\ fCalls' = fCalls + 1
    /\ fInnerCtx' = Append(fInnerCtx, fCtx)
    /\ UNCHANGED << fResult, fFiltered, fCtx, fTwice >>
    /\ UNCHANGED notFilterVars

\* FilterErrors(FilterErrors(fn, filteredErrors...), filteredErrors...) is
\* called with fCtx: the outer function calls the inner one with fCtx, which
\* calls fn with fCtx, and each filters what it gets back.
FilterTwiceCall ==
    /\ fOut.kind # "none"
    /\ fTwice.kind = "none"
    /\ fTwice' = FilterErrors(FilterErrors(fResult, fFiltered), fFiltered)
    /\ fCalls' = fCalls + 1
    /\ fInnerCtx' = Append(fInnerCtx, fCtx)
    /\ UNCHANGED << fResult, fFiltered, fCtx, fOut >>
    /\ UNCHANGED notFilterVars

FilterNext ==
    \/ FilterCall
    \/ FilterTwiceCall

FilterSpec == FilterInit /\ [][FilterNext]_filterVars

\* The returned function has been called.
FilterCalled == fCalls > 0

\* The result of the function given to FilterErrors matches a filtered
\* error under errors.Is.
MatchesFiltered == \E filteredError \in fFiltered : Is(fResult.val, filteredError)

(***************************************************************************)
(* C13: the function FilterErrors returns yields nil when the given        *)
(* function's result r is nil, nil when r matches some member of the       *)
(* filter set, and r itself when r matches no member.                      *)
(***************************************************************************)
C13_FilterTable ==
    FilterCalled =>
        /\ fOut.kind = "ret"
        /\ fResult.val = Nil => fOut.val = Nil
        /\ fResult.val # Nil /\ MatchesFiltered => fOut.val = Nil
        /\ fResult.val # Nil /\ ~MatchesFiltered => fOut.val = fResult.val

\* FilterErrors(task, E1, E2) was called on a task returning E1.
C13_Witness ==
    /\ FilterCalled
    /\ Cardinality(fFiltered) = 2
    /\ fResult.val \in fFiltered
    /\ fOut.val = Nil

\* Some link of the chain of err is one of the filtered values.
ChainContainsFiltered(err) ==
    \E k \in 1..Len(err) : SubSeq(err, k, Len(err)) \in fFiltered

(***************************************************************************)
(* C14: an error that wraps a filtered value, at any depth, is suppressed  *)
(* to nil like the filtered value itself, and an error whose chain holds   *)
(* no filtered value is returned unchanged.                                *)
(***************************************************************************)
C14_MatchesByChain ==
    FilterCalled =>
        /\ \A filteredError \in fFiltered : \A n \in 0..MaxWrapDepth :
              fResult.val = WrapN(filteredError, n) => fOut.val = Nil
        /\ ~ChainContainsFiltered(fResult.val) => fOut = fResult

\* A filtered value behind MaxWrapDepth wraps was suppressed.
C14_Witness ==
    /\ FilterCalled
    /\ \E filteredError \in fFiltered :
          fResult.val = WrapN(filteredError, MaxWrapDepth)
    /\ fResult.val \notin fFiltered
    /\ fOut.val = Nil


(***************************************************************************)
(* Service: NewService binds a sentry client and an application; every     *)
(* call of Service.Run runs the application and handles what it returns.   *)
(***************************************************************************)
MaxRuns == 2

SentryClients == {"sentryClientA", "sentryClientB"}

\* What Application.Run may return.
AppResults == {Nil} \cup Errors

\* The targets of the predicates NewOptions installs by default.
DefaultExcludeErrors == {Canceled, DeadlineExceeded}

\* Some default exclusion predicate matches err.
IsExcluded(err) == \E target \in DefaultExcludeErrors : Is(err, target)

\* A Service.Run that swallows the errors the default options exclude.
ServiceRunOutcomeExcluding(err) ==
    IF err # Nil /\ ~IsExcluded(err)
    THEN [captures |-> << err >>, ret |-> Wrap(err, "application failed")]
    ELSE [captures |-> << >>, ret |-> Nil]

\* A Service.Run that forgets to report.
ServiceRunOutcomeNoCapture(err) ==
    IF err # Nil
    THEN [captures |-> << >>, ret |-> Wrap(err, "application failed")]
    ELSE [captures |-> << >>, ret |-> Nil]

\* A Service.Run that reports before looking at err.
ServiceRunOutcomeCapturesNil(err) ==
    IF err # Nil
    THEN [captures |-> << err >>, ret |-> Wrap(err, "application failed")]
    ELSE [captures |-> << err >>, ret |-> Nil]

\* A Service.Run that returns a new error in place of a wrapping one.
ServiceRunOutcomeNewError(err) ==
    IF err # Nil
    THEN [captures |-> << err >>, ret |-> << "application failed" >>]
    ELSE [captures |-> << >>, ret |-> Nil]

\* A Service.Run that reports the error and the wrapped error.
ServiceRunOutcomeCapturesTwice(err) ==
    IF err # Nil
    THEN [captures |-> << err, Wrap(err, "application failed") >>,
          ret |-> Wrap(err, "application failed")]
    ELSE [captures |-> << >>, ret |-> Nil]

\* What Service.Run does with the error err of the application: the errors
\* it hands to CaptureException and the error it returns.
ServiceRunOutcome(err) ==
    IF err # Nil
    THEN [captures |-> << err >>, ret |-> Wrap(err, "application failed")]
    ELSE [captures |-> << >>, ret |-> Nil]

\* NewService(sentryClient, app) has been called; Run not yet.
ServiceInit ==
    /\ RunIdle
    /\ FilterIdle
    /\ OptionsIdle
    /\ MainIdle
    /\ SigIdle
    /\ svcClient \in SentryClients
    /\ svcPc = "idle"
    /\ svcCtx = << >>
    /\ appCalls = << >>
    /\ appReturns = << >>
    /\ captured = << >>
    /\ svcReturns = << >>

\* A Service.Run that runs the application under a context of its own.
ServiceRunOwnContext(ctx) ==
    /\ svcPc = "idle"
    /\ Len(svcCtx) < MaxRuns
    /\ svcCtx' = Append(svcCtx, ctx)
    /\ appCalls' = Append(appCalls, [run |-> Len(svcCtx) + 1,
                                     ctx |-> "background",
                                     client |-> svcClient])
    /\ svcPc' = "app"
    /\ UNCHANGED << svcClient, appReturns, captured, svcReturns >>
    /\ UNCHANGED notServiceVars

\* Service.Run(ctx) is called and calls s.app.Run(ctx, s.sentryClient).
ServiceRun(ctx) ==
    /\ svcPc = "idle"
    /\ Len(svcCtx) < MaxRuns
    /\ svcCtx' = Append(svcCtx, ctx)
    /\ appCalls' = Append(appCalls, [run |-> Len(svcCtx) + 1,
                                     ctx |-> ctx,
                                     client |-> svcClient])
    /\ svcPc' = "app"
    /\ UNCHANGED << svcClient, appReturns, captured, svcReturns >>
    /\ UNCHANGED notServiceVars

\* A Service.Run that, on its way out, drops the exclusion predicates its
\* sentry client was created with.
ServiceRunReturnDropsExclusions(err) ==
    /\ svcPc = "app"
    /\ LET run == Len(svcCtx)
           outcome == ServiceRunOutcome(err)
       IN  /\ appReturns' = Append(appReturns, err)
           /\ captured' = captured \o
                 [k \in 1..Len(outcome.captures) |->
                     [run |-> run, err |-> outcome.captures[k],
                      ctx |-> svcCtx[run], client |-> svcClient]]
           /\ svcReturns' = Append(svcReturns, outcome.ret)
    /\ svcPc' = "idle"
    /\ mExclude' = << >>
    /\ UNCHANGED << svcClient, svcCtx, appCalls >>
    /\ UNCHANGED << vars, filterVars, optionsVars, sigVars >>
    /\ UNCHANGED << mEntry, mParseErr, mDSN, mClientErr, mFns, mApp, mPc,
                    mExit, mClientCalls >>

\* s.app.Run returns err and Service.Run runs to its end.
ServiceRunReturn(err) ==
    /\ svcPc = "app"
    /\ LET run == Len(svcCtx)
           outcome == ServiceRunOutcome(err)
       IN  /\ appReturns' = Append(appReturns, err)
           /\ captured' = captured \o
                 [k \in 1..Len(outcome.captures) |->
                     [run |-> run, err |-> outcome.captures[k],
                      ctx |-> svcCtx[run], client |-> svcClient]]
           /\ svcReturns' = Append(svcReturns, outcome.ret)
    /\ svcPc' = "idle"
    /\ UNCHANGED << svcClient, svcCtx, appCalls >>
    /\ UNCHANGED notServiceVars

ServiceNext ==
    \/ \E ctx \in Contexts : ServiceRun(ctx)
    \/ \E err \in AppResults : ServiceRunReturn(err)

ServiceSpec == ServiceInit /\ [][ServiceNext]_serviceVars


\* The invocations of Service.Run that have returned.
FinishedRuns == 1..Len(svcReturns)

\* The calls of CaptureException made by invocation n.
CapturesOf(n) == {k \in 1..Len(captured) : captured[k].run = n}

\* The calls of Application.Run made by invocation n.
AppCallsOf(n) == {k \in 1..Len(appCalls) : appCalls[k].run = n}

\* The message of err contains text: the message of a wrapping error is
\* made of the messages of its chain.
MessageContains(err, text) == \E k \in 1..Len(err) : err[k] = text

(***************************************************************************)
(* C15: when the application returns a non-nil error that no exclusion     *)
(* predicate matches, Service.Run calls CaptureException of its sentry     *)
(* client exactly once, with an error matching the original, and returns a *)
(* non-nil error whose message contains "application failed".              *)
(***************************************************************************)
C15_FailurePath ==
    \A n \in FinishedRuns :
        appReturns[n] # Nil /\ ~IsExcluded(appReturns[n]) =>
            /\ Cardinality(CapturesOf(n)) = 1
            /\ \A k \in CapturesOf(n) :
                  /\ Is(captured[k].err, appReturns[n])
                  /\ captured[k].client = svcClient
            /\ svcReturns[n] # Nil
            /\ MessageContains(svcReturns[n], "application failed")

\* An invocation whose application failed with a plain error has returned.
C15_Witness ==
    \E n \in FinishedRuns :
        /\ appReturns[n] = RealError
        /\ Cardinality(CapturesOf(n)) = 1
        /\ svcReturns[n] # Nil

(***************************************************************************)
(* C16 as stated: when the application returns a non-nil error matched by  *)
(* a default exclusion predicate (it is or wraps context.Canceled or       *)
(* context.DeadlineExceeded), Service.Run returns nil and makes no call to *)
(* the crash reporter.                                                     *)
(***************************************************************************)
C16_ExcludedSwallowed ==
    \A n \in FinishedRuns :
        appReturns[n] # Nil /\ IsExcluded(appReturns[n]) =>
            /\ svcReturns[n] = Nil
            /\ CapturesOf(n) = {}

(***************************************************************************)
(* C16 amended: Service.Run evaluates no exclusion predicate; an error     *)
(* that is or wraps context.Canceled or context.DeadlineExceeded is handed *)
(* to CaptureException of the bound sentry client exactly once and comes   *)
(* back wrapped with "application failed".                                 *)
(***************************************************************************)
C16_ExcludedStillHandled ==
    \A n \in FinishedRuns :
        appReturns[n] # Nil /\ IsExcluded(appReturns[n]) =>
            /\ svcReturns[n] = Wrap(appReturns[n], "application failed")
            /\ Cardinality(CapturesOf(n)) = 1
            /\ \A k \in CapturesOf(n) :
                  /\ captured[k].err = appReturns[n]
                  /\ captured[k].client = svcClient

\* An invocation whose application returned a wrapped
\* context.DeadlineExceeded has returned.
C16_Witness ==
    \E n \in FinishedRuns :
        /\ appReturns[n] = WrapN(DeadlineExceeded, 1)
        /\ svcReturns[n] # Nil
        /\ CapturesOf(n) # {}

(***************************************************************************)
(* C17: when the application returns context.Canceled, Service.Run returns *)
(* a non-nil error and calls CaptureException exactly once.                *)
(***************************************************************************)
C17_CanceledNotFiltered ==
    \A n \in FinishedRuns :
        appReturns[n] = Canceled =>
            /\ svcReturns[n] # Nil
            /\ Cardinality(CapturesOf(n)) = 1

\* An invocation whose application returned context.Canceled has returned.
C17_Witness ==
    \E n \in FinishedRuns :
        /\ appReturns[n] = Canceled
        /\ svcReturns[n] # Nil

(***************************************************************************)
(* C18: when the application returns nil, Service.Run returns nil and      *)
(* makes no call to the crash reporter.                                    *)
(***************************************************************************)
C18_SuccessPath ==
    \A n \in FinishedRuns :
        appReturns[n] = Nil =>
            /\ svcReturns[n] = Nil
            /\ CapturesOf(n) = {}

\* An invocation whose application succeeded has returned, after one whose
\* application failed and was reported.
C18_Witness ==
    /\ Len(svcReturns) = 2
    /\ appReturns[1] # Nil
    /\ captured # << >>
    /\ appReturns[2] = Nil
    /\ svcReturns[2] = Nil

(***************************************************************************)
(* C19: for every application error E that no exclusion predicate matches, *)
(* the error Service.Run returns matches E, and every error E wraps, under *)
(* errors.Is.                                                              *)
(***************************************************************************)
C19_WrapTransparency ==
    \A n \in FinishedRuns :
        appReturns[n] # Nil /\ ~IsExcluded(appReturns[n]) =>
            \A k \in 1..Len(appReturns[n]) :
                Is(svcReturns[n],
                   SubSeq(appReturns[n], k, Len(appReturns[n])))

\* An invocation whose application returned a wrapped base error has
\* returned.
C19_Witness ==
    \E n \in FinishedRuns :
        /\ appReturns[n] = WrapN(RealError, 1)
        /\ Is(svcReturns[n], RealError)
        /\ svcReturns[n] # appReturns[n]

(***************************************************************************)
(* C20: each invocation of Service.Run calls the bound application's Run   *)
(* exactly once, with the context the invocation was given and the sentry  *)
(* client the Service was constructed with.                                *)
(***************************************************************************)
C20_AppCalledOnce ==
    \A n \in 1..Len(svcCtx) :
        /\ Cardinality(AppCallsOf(n)) = 1
        /\ \A k \in AppCallsOf(n) :
              /\ appCalls[k].ctx = svcCtx[n]
              /\ appCalls[k].client = svcClient

\* Two invocations with different contexts have returned.
C20_Witness ==
    /\ Len(svcReturns) = 2
    /\ svcCtx[1] # svcCtx[2]
    /\ Len(appCalls) = 2


(***************************************************************************)
(* Options: NewOptions builds the list of exclusion predicates from the    *)
(* defaults and the configuration functions, and a caller asks the         *)
(* predicates about an error.                                              *)
(***************************************************************************)
MaxFns == 2

\* func(err error) bool { return errors.Is(err, target) }
IsPredicate(target) == [kind |-> "is", arg |-> target]

\* func(err error) bool { return err.Error() == text }
MessagePredicate(text) == [kind |-> "message", arg |-> << text >>]

\* The call predicate(err).
Holds(predicate, err) ==
    IF predicate.kind = "is" THEN Is(err, predicate.arg)
    ELSE err = predicate.arg

\* The ExcludeErrors NewOptions starts from.
DefaultPredicates == << IsPredicate(Canceled), IsPredicate(DeadlineExceeded) >>

\* The predicates callers add.
CustomPredicates == {MessagePredicate("custom error"), IsPredicate(TestError)}

\* o.ExcludeErrors = append(o.ExcludeErrors, predicate)
AppendFn(predicate) == [kind |-> "append", excludeErrors |-> << predicate >>]

\* o.ExcludeErrors = libsentry.ExcludeErrors{...}
ReplaceFn(excludeErrors) == [kind |-> "replace", excludeErrors |-> excludeErrors]

OptionsFns ==
    {AppendFn(p) : p \in CustomPredicates}
    \cup {ReplaceFn(<< p >>) : p \in CustomPredicates}
    \cup {ReplaceFn(<< >>)}

\* The call fn(&options), as the new options.ExcludeErrors.
ApplyOptionsFn(fn, excludeErrors) ==
    IF fn.kind = "append" THEN excludeErrors \o fn.excludeErrors
    ELSE fn.excludeErrors

\* for _, fn := range fns { fn(&options) }, from fns[i] on.
RECURSIVE ApplyOptionsFns(_, _, _)
ApplyOptionsFns(fns, i, excludeErrors) ==
    IF i > Len(fns) THEN excludeErrors
    ELSE ApplyOptionsFns(fns, i + 1, ApplyOptionsFn(fns[i], excludeErrors))

\* The same loop over fns backwards.
RECURSIVE ApplyOptionsFnsBackwards(_, _, _)
ApplyOptionsFnsBackwards(fns, i, excludeErrors) ==
    IF i < 1 THEN excludeErrors
    ELSE ApplyOptionsFnsBackwards(fns, i - 1,
                                  ApplyOptionsFn(fns[i], excludeErrors))

\* A NewOptions that starts from an empty list.
NewOptionsNoDefaults(fns) == ApplyOptionsFns(fns, 1, << >>)

\* A NewOptions that applies the last function first.
NewOptionsBackwards(fns) ==
    ApplyOptionsFnsBackwards(fns, Len(fns), DefaultPredicates)

\* NewOptions(fns...), as the ExcludeErrors of the Options it returns.
NewOptions(fns) == ApplyOptionsFns(fns, 1, DefaultPredicates)

\* for _, ee := range e { if ee(err) { return true } }; return false,
\* from e[i] on.
RECURSIVE IsExcludedFrom(_, _, _)
IsExcludedFrom(e, err, i) ==
    IF i > Len(e) THEN FALSE
    ELSE IF Holds(e[i], err) THEN TRUE
    ELSE IsExcludedFrom(e, err, i + 1)

\* A loop that returns what the first predicate says.
ExcludeErrorsIsExcludedFirstOnly(e, err) ==
    IF Len(e) = 0 THEN FALSE ELSE Holds(e[1], err)

\* ExcludeErrors.IsExcluded(err)
ExcludeErrorsIsExcluded(e, err) == IsExcludedFrom(e, err, 1)

\* The errors callers ask the predicates about.
OptionsErrors == Errors \cup {<< "custom error" >>}

OptionsInit ==
    /\ RunIdle
    /\ FilterIdle
    /\ ServiceIdle
    /\ MainIdle
    /\ SigIdle
    /\ oFns \in UNION {[1..k -> OptionsFns] : k \in 0..MaxFns}
    /\ oErr \in OptionsErrors
    /\ oOptions = << >>
    /\ oExcluded = FALSE
    /\ oPc = "start"

\* The caller calls NewOptions(fns...).
NewOptionsCall ==
    /\ oPc = "start"
    /\ oOptions' = NewOptions(oFns)
    /\ oPc' = "built"
    /\ UNCHANGED << oFns, oErr, oExcluded >>
    /\ UNCHANGED notOptionsVars

\* The caller asks whether the predicates exclude its error.
IsExcludedCall ==
    /\ oPc = "built"
    /\ oExcluded' = ExcludeErrorsIsExcluded(oOptions, oErr)
    /\ oPc' = "checked"
    /\ UNCHANGED << oFns, oErr, oOptions >>
    /\ UNCHANGED notOptionsVars

OptionsNext == NewOptionsCall \/ IsExcludedCall

OptionsSpec == OptionsInit /\ [][OptionsNext]_optionsVars


\* NewOptions has returned.
OptionsBuilt == oPc \in {"built", "checked"}

\* Some predicate of excludeErrors returns true for err.
SomePredicateHolds(excludeErrors, err) ==
    \E i \in 1..Len(excludeErrors) : Holds(excludeErrors[i], err)

(***************************************************************************)
(* C23: NewOptions without configuration functions yields exactly two      *)
(* predicates, and an error is excluded by them if and only if it is or    *)
(* wraps context.Canceled or context.DeadlineExceeded.                     *)
(***************************************************************************)
C23_DefaultExclusionSet ==
    OptionsBuilt /\ oFns = << >> =>
        /\ Len(oOptions) = 2
        /\ \A err \in OptionsErrors :
              SomePredicateHolds(oOptions, err)
                  <=> (Is(err, Canceled) \/ Is(err, DeadlineExceeded))
        /\ oPc = "checked" =>
              (oExcluded <=> (Is(oErr, Canceled) \/ Is(oErr, DeadlineExceeded)))

\* The default predicates were asked about a wrapped context.Canceled.
C23_Witness ==
    /\ oPc = "checked"
    /\ oFns = << >>
    /\ oErr = WrapN(Canceled, 1)
    /\ oExcluded

\* What the configuration functions fns[1..n] leave of the defaults,
\* reading fns from the last one: a replacing function decides alone, an
\* appending one adds to what the functions before it left.
RECURSIVE LeftBy(_, _)
LeftBy(fns, n) ==
    IF n = 0 THEN DefaultPredicates
    ELSE IF fns[n].kind = "replace" THEN fns[n].excludeErrors
    ELSE LeftBy(fns, n - 1) \o fns[n].excludeErrors

(***************************************************************************)
(* C24: NewOptions applies its configuration functions in argument order   *)
(* to one value that starts as the defaults: a replacing function discards *)
(* the defaults and everything appended before it, an appending one keeps  *)
(* them; n appending functions give 2+n predicates, and a replacement by   *)
(* one predicate followed by an append gives 2.                            *)
(***************************************************************************)
C24_FnsAppliedInOrder ==
    OptionsBuilt =>
        /\ oOptions = LeftBy(oFns, Len(oFns))
        /\ (\A i \in 1..Len(oFns) : oFns[i].kind = "append")
              => /\ Len(oOptions) = 2 + Len(oFns)
                 /\ SubSeq(oOptions, 1, 2) = DefaultPredicates
        /\ \A p, q \in CustomPredicates :
              oFns = << ReplaceFn(<< p >>), AppendFn(q) >>
                  => oOptions = << p, q >>
        /\ \A p, q \in CustomPredicates :
              oFns = << AppendFn(q), ReplaceFn(<< p >>) >>
                  => oOptions = << p >>

\* NewOptions was given a replacing function and then an appending one.
C24_Witness ==
    /\ OptionsBuilt
    /\ Len(oFns) = 2
    /\ oFns[1].kind = "replace"
    /\ Len(oFns[1].excludeErrors) = 1
    /\ oFns[2].kind = "append"
    /\ Len(oOptions) = 2

\* excludeErrors reordered by the permutation perm of its indices.
Permuted(excludeErrors, perm) ==
    [i \in 1..Len(excludeErrors) |-> excludeErrors[perm[i]]]

(***************************************************************************)
(* C25: IsExcluded(err) is true if and only if at least one predicate of   *)
(* the sequence returns true for err; every permutation of the predicates  *)
(* gives the same decision, and an empty sequence excludes nothing.        *)
(***************************************************************************)
C25_ExclusionIsOrderFreeOr ==
    oPc = "checked" =>
        /\ oExcluded <=> SomePredicateHolds(oOptions, oErr)
        /\ \A perm \in Permutations(1..Len(oOptions)) :
              ExcludeErrorsIsExcluded(Permuted(oOptions, perm), oErr)
                  = oExcluded
        /\ oOptions = << >> => ~oExcluded

\* A predicate other than the first one excluded the error.
C25_Witness ==
    /\ oPc = "checked"
    /\ Len(oOptions) >= 3
    /\ oExcluded
    /\ ~Holds(oOptions[1], oErr)


(***************************************************************************)
(* Main and MainCmd: the entry points parse the arguments, Main sets up    *)
(* the sentry client and the Service, and the application runs under a     *)
(* context that a signal cancels.  The application returns a value of its  *)
(* own, waits for its context, or runs a group of functions with Run.      *)
(***************************************************************************)
MainFns == {<< >>, << AppendFn(IsPredicate(TestError)) >>, << ReplaceFn(<< >>) >>}

MainAppResults ==
    {Nil, RealError, TestError, Canceled, DeadlineExceeded, WrapN(Canceled, 1)}

Apps ==
    {[kind |-> "direct", val |-> v] : v \in MainAppResults}
    \cup {[kind |-> "wait"], [kind |-> "group"]}

\* The state of a Run call that has not begun, for the functions in funcs.
RunStart ==
    /\ wraps = [i \in Tasks |-> 0]
    /\ parentErr = Nil
    /\ childErr = Nil
    /\ cancelCount = 0
    /\ runPc = "idle"
    /\ runResult = Nil
    /\ launched = 0
    /\ pc = [i \in Tasks |-> "unstarted"]
    /\ handle = [i \in Tasks |-> "none"]
    /\ raw = [i \in Tasks |-> NotRun]
    /\ sawDone = [i \in Tasks |-> FALSE]
    /\ pending = [i \in Tasks |-> Nil]
    /\ results = << >>
    /\ logged = [i \in Tasks |-> 0]
    /\ crashed = FALSE
    /\ launchedAfter = [i \in Tasks |-> 0]

MainInit ==
    /\ FilterIdle
    /\ ServiceIdle
    /\ OptionsIdle
    /\ SigIdle
    /\ mEntry \in {"Main", "MainCmd"}
    /\ mParseErr \in BOOLEAN
    /\ mDSN \in IF mEntry = "Main" THEN {"nil", "dsn"} ELSE {"nil"}
    /\ mClientErr \in IF mEntry = "Main" THEN BOOLEAN ELSE {FALSE}
    /\ mFns \in IF mEntry = "Main" THEN MainFns ELSE {<< >>}
    /\ mApp \in Apps
    /\ funcs \in IF mApp.kind = "group"
                 THEN UNION {[1..k -> FairFuncs] : k \in 0..MaxTasks}
                 ELSE {<< >>}
    /\ RunStart
    /\ mPc = "start"
    /\ mExit = -1
    /\ mExclude = << >>
    /\ mClientCalls = << >>

\* A Main that looks at the DSN before it parses the arguments.
MainStartDSNFirst ==
    /\ mEntry = "Main"
    /\ mPc = "start"
    /\ IF mDSN = "nil"
       THEN /\ mExit' = 3
            /\ mPc' = "exited"
            /\ UNCHANGED << mExclude, mClientCalls, svcClient, svcPc >>
       ELSE IF mParseErr
       THEN /\ mExit' = 4
            /\ mPc' = "exited"
            /\ UNCHANGED << mExclude, mClientCalls, svcClient, svcPc >>
       ELSE IF mClientErr
       THEN /\ mExit' = 2
            /\ mPc' = "exited"
            /\ UNCHANGED << mExclude, mClientCalls, svcClient, svcPc >>
       ELSE /\ mExclude' = NewOptions(mFns)
            /\ UNCHANGED mClientCalls
            /\ svcClient' = "sentryClient"
            /\ svcPc' = "idle"
            /\ mPc' = "service"
            /\ UNCHANGED mExit
    /\ UNCHANGED << mEntry, mParseErr, mDSN, mClientErr, mFns, mApp >>
    /\ UNCHANGED << svcCtx, appCalls, appReturns, captured, svcReturns >>
    /\ UNCHANGED << vars, filterVars, optionsVars, sigVars >>

\* A Main that goes on with the client whatever libsentry.NewClient
\* returned.
MainStartIgnoresClientError ==
    /\ mEntry = "Main"
    /\ mPc = "start"
    /\ IF mParseErr
       THEN /\ mExit' = 4
            /\ mPc' = "exited"
            /\ UNCHANGED << mExclude, mClientCalls, svcClient, svcPc >>
       ELSE IF mDSN = "nil"
       THEN /\ mExit' = 3
            /\ mPc' = "exited"
            /\ UNCHANGED << mExclude, mClientCalls, svcClient, svcPc >>
       ELSE /\ mExclude' = NewOptions(mFns)
            /\ UNCHANGED mClientCalls
            /\ svcClient' = "sentryClient"
            /\ svcPc' = "idle"
            /\ mPc' = "service"
            /\ UNCHANGED mExit
    /\ UNCHANGED << mEntry, mParseErr, mDSN, mClientErr, mFns, mApp >>
    /\ UNCHANGED << svcCtx, appCalls, appReturns, captured, svcReturns >>
    /\ UNCHANGED << vars, filterVars, optionsVars, sigVars >>

\* Main up to NewService: argument.ParseAndPrint, NewOptions, the check of
\* sentryDSN, libsentry.NewClient with options.ExcludeErrors, NewService.
MainStart ==
    /\ mEntry = "Main"
    /\ mPc = "start"
    /\ IF mParseErr
       THEN /\ mExit' = 4
            /\ mPc' = "exited"
            /\ UNCHANGED << mExclude, mClientCalls, svcClient, svcPc >>
       ELSE IF mDSN = "nil"
       THEN /\ mExit' = 3
            /\ mPc' = "exited"
            /\ UNCHANGED << mExclude, mClientCalls, svcClient, svcPc >>
       ELSE IF mClientErr
       THEN /\ mExit' = 2
            /\ mPc' = "exited"
            /\ UNCHANGED << mExclude, mClientCalls, svcClient, svcPc >>
       ELSE /\ mExclude' = NewOptions(mFns)
            /\ UNCHANGED mClientCalls
            /\ svcClient' = "sentryClient"
            /\ svcPc' = "idle"
            /\ mPc' = "service"
            /\ UNCHANGED mExit
    /\ UNCHANGED << mEntry, mParseErr, mDSN, mClientErr, mFns, mApp >>
    /\ UNCHANGED << svcCtx, appCalls, appReturns, captured, svcReturns >>
    /\ UNCHANGED << vars, filterVars, optionsVars, sigVars >>

\* Main calls service.Run(run.ContextWithSig(ctx)).
MainServiceRun ==
    /\ mPc = "service"
    /\ svcCtx = << >>
    /\ ServiceRun("sigCtx")

\* The application's Run is under way.
AppRunning ==
    \/ mEntry = "Main" /\ mPc = "service" /\ svcPc = "app"
    \/ mEntry = "MainCmd" /\ mPc = "app"

\* A signal arrives or the context given to the entry point ends: the
\* context of the application is done.
MainSignal == ParentCancel

\* The application hands its functions to Run.
AppRun ==
    /\ AppRunning
    /\ mApp.kind = "group"
    /\ Run

\* What the application's Run returns, if it can return now.
AppOutcome ==
    CASE mApp.kind = "direct" -> {mApp.val}
      [] mApp.kind = "wait" -> IF parentErr # Nil THEN {parentErr} ELSE {}
      [] mApp.kind = "group" -> IF runPc = "returned" THEN {runResult} ELSE {}
      [] OTHER -> {}

\* The application returns to service.Run, which runs to its end.
MainAppReturn ==
    /\ mEntry = "Main"
    /\ mPc = "service"
    /\ \E err \in AppOutcome : ServiceRunReturn(err)


\* A Main whose deferred function closes the sentry client without flushing
\* it first (defer sentryClient.Close()).
MainReturnCloseOnly ==
    /\ mEntry = "Main"
    /\ mPc = "service"
    /\ Len(svcReturns) = 1
    /\ mExit' = IF svcReturns[1] # Nil THEN 1 ELSE 0
    /\ mClientCalls' = mClientCalls \o << "Close" >>
    /\ mPc' = "exited"
    /\ UNCHANGED << mEntry, mParseErr, mDSN, mClientErr, mFns, mApp,
                    mExclude >>
    /\ UNCHANGED << vars, filterVars, serviceVars, optionsVars, sigVars >>

\* service.Run has returned: Main returns 1 for an error and 0 otherwise,
\* and on the way out its deferred function calls sentryClient.Flush and
\* then sentryClient.Close.
MainReturn ==
    /\ mEntry = "Main"
    /\ mPc = "service"
    /\ Len(svcReturns) = 1
    /\ mExit' = IF svcReturns[1] # Nil THEN 1 ELSE 0
    /\ mClientCalls' = mClientCalls \o << "Flush", "Close" >>
    /\ mPc' = "exited"
    /\ UNCHANGED << mEntry, mParseErr, mDSN, mClientErr, mFns, mApp,
                    mExclude >>
    /\ UNCHANGED << vars, filterVars, serviceVars, optionsVars, sigVars >>

\* A MainCmd that runs the application whatever argument.Parse returned.
MainCmdStartIgnoresParseError ==
    /\ mEntry = "MainCmd"
    /\ mPc = "start"
    /\ mPc' = "app"
    /\ UNCHANGED << mEntry, mParseErr, mDSN, mClientErr, mFns, mApp, mExit,
                    mExclude, mClientCalls >>
    /\ UNCHANGED << vars, filterVars, serviceVars, optionsVars, sigVars >>

\* MainCmd up to app.Run(run.ContextWithSig(ctx)): argument.Parse.
MainCmdStart ==
    /\ mEntry = "MainCmd"
    /\ mPc = "start"
    /\ IF mParseErr
       THEN /\ mExit' = 4
            /\ mPc' = "exited"
       ELSE /\ mPc' = "app"
            /\ UNCHANGED mExit
    /\ UNCHANGED << mEntry, mParseErr, mDSN, mClientErr, mFns, mApp,
                    mExclude, mClientCalls >>
    /\ UNCHANGED << vars, filterVars, serviceVars, optionsVars, sigVars >>

\* The application returns to MainCmd, which returns 1 for an error and 0
\* otherwise.
MainCmdReturn ==
    /\ mEntry = "MainCmd"
    /\ mPc = "app"
    /\ \E err \in AppOutcome :
          mExit' = IF err # Nil THEN 1 ELSE 0
    /\ mPc' = "exited"
    /\ UNCHANGED << mEntry, mParseErr, mDSN, mClientErr, mFns, mApp,
                    mExclude, mClientCalls >>
    /\ UNCHANGED << vars, filterVars, serviceVars, optionsVars, sigVars >>

MainNext ==
    \/ MainStart
    \/ MainServiceRun
    \/ MainAppReturn
    \/ MainReturn
    \/ MainCmdStart
    \/ MainCmdReturn
    \/ MainSignal
    \/ AppRun
    \/ Launch
    \/ \E i \in Tasks : TaskBegin(i)
    \/ \E i \in Tasks : TaskFinish(i)
    \/ \E i \in Tasks : TaskDeliver(i)
    \/ FirstFinish
    \/ Return

mainSpecVars == << vars, serviceVars, mainVars >>

MainSpec == MainInit /\ [][MainNext]_mainSpecVars

\* The entry point has returned its exit code.
Exited == mPc = "exited"

\* The reports the sentry client sends: the calls of CaptureException with
\* an error that none of the ExcludeErrors it was created with excludes.
ReportsSent ==
    {k \in 1..Len(captured) :
        ~ExcludeErrorsIsExcluded(mExclude, captured[k].err)}


\* Main has returned after the application ran.
MainRanApp == mEntry = "Main" /\ Exited /\ Len(appReturns) = 1

\* err is a cancellation or a timeout: it is or wraps context.Canceled or
\* context.DeadlineExceeded.
CancelledOrTimedOut(err) == Is(err, Canceled) \/ Is(err, DeadlineExceeded)

C22_MainExitCode ==
    mEntry = "Main" =>
        /\ mExit \in {-1, 0, 1, 2, 3, 4}
        /\ Exited <=> mExit # -1
        /\ Exited =>
              mExit = IF mParseErr THEN 4
                      ELSE IF mDSN = "nil" THEN 3
                      ELSE IF mClientErr THEN 2
                      ELSE IF svcReturns[1] # Nil THEN 1
                      ELSE 0
        /\ mParseErr \/ mDSN = "nil" \/ mClientErr => appCalls = << >>

\* Main has returned 4 although the DSN is missing and the client could
\* not have been created either.
C22_Witness ==
    /\ mEntry = "Main"
    /\ Exited
    /\ mParseErr
    /\ mDSN = "nil"
    /\ mClientErr
    /\ mExit = 4


(***************************************************************************)
(* C26: MainCmd returns 4 if parsing the arguments fails, and the          *)
(* application is then never run; else 1 if the application's Run returns  *)
(* an error, else 0; it returns no other code and uses no crash reporter.  *)
(***************************************************************************)
C26_MainCmdExitCode ==
    mEntry = "MainCmd" =>
        /\ mExit \in {-1, 0, 1, 4}
        /\ Exited <=> mExit # -1
        /\ Exited =>
              mExit = IF mParseErr THEN 4
                      ELSE IF \E err \in AppOutcome : err # Nil THEN 1
                      ELSE 0
        /\ mParseErr => mPc # "app" /\ runPc = "idle"
        /\ svcClient = "none"
        /\ appCalls = << >>
        /\ captured = << >>

\* MainCmd has returned 1 for an application whose group of functions
\* failed.
C26_Witness ==
    /\ mEntry = "MainCmd"
    /\ Exited
    /\ mApp.kind = "group"
    /\ runResult # Nil
    /\ mExit = 1

\* A step that calls CaptureException is the end of a Service.Run
\* invocation and changes neither the state of Run nor that of Main.
CaptureOnlyInService ==
    captured' # captured =>
        /\ svcPc = "app"
        /\ svcPc' = "idle"
        /\ Len(svcReturns') = Len(svcReturns) + 1
        /\ UNCHANGED << vars, mainVars >>

(***************************************************************************)
(* C30: CaptureException is called by Service.Run only, never by a step of *)
(* Run, its wrappers or Main, and a Service.Run invocation makes at most   *)
(* one such call, however many functions of the application failed or      *)
(* panicked.                                                               *)
(***************************************************************************)
C30_OnlyServiceReports ==
    /\ [](/\ \A n \in FinishedRuns : Cardinality(CapturesOf(n)) <= 1
          /\ \A k \in 1..Len(captured) : captured[k].run \in FinishedRuns)
    /\ [][CaptureOnlyInService]_mainSpecVars

\* Main has returned after an application in which one function panicked
\* and another failed; one report was made.
C30_Witness ==
    /\ MainRanApp
    /\ mApp.kind = "group"
    /\ \E i, j \in Tasks :
          /\ raw[i].kind = "panic"
          /\ raw[j].kind = "ret"
          /\ raw[j].val = RealError
    /\ Len(captured) = 1


(***************************************************************************)
(* The order in which Run nests the wrappers around a function.            *)
(***************************************************************************)

\* The nesting with the panic guard innermost.
RunWrappersPanicGuardInnermost == << "CatchPanic", "FilterErrors", "LogErrors" >>

\* The wrappers of run.LogErrors(run.CatchPanic(FilterErrors(fn,
\* context.Canceled))), innermost first.
RunWrappers == << "FilterErrors", "CatchPanic", "LogErrors" >>

\* The function the named wrapper returns, applied to the execution x of
\* the function it was given.
ApplyWrapper(name, x) ==
    CASE name = "FilterErrors" -> FilterErrors(x, {Canceled})
      [] name = "CatchPanic" -> CatchPanic(x)
      [] name = "LogErrors" -> LogErrors(x)

\* The execution the k-th wrapper (innermost first) gets from the function
\* it was given, when the original function executes as x.
RECURSIVE WrapperInput(_, _)
WrapperInput(x, k) ==
    IF k = 1 THEN x
    ELSE ApplyWrapper(RunWrappers[k - 1], WrapperInput(x, k - 1))

\* The execution the named wrapper is applied to.
InputOf(name, x) ==
    WrapperInput(x, CHOOSE k \in 1..Len(RunWrappers) : RunWrappers[k] = name)

\* The wrapped function of task i has finished without ending the process.
Finished(i) == pc[i] \in {"finished", "done"} /\ ~crashed

FinalResult(i) == CatchPanic(FilterErrors(raw[i], {Canceled})).val

(***************************************************************************)
(* C28: what Run returns is the panic-guarded and filtered result of the   *)
(* first task to deliver one; once Run has returned, what the losing tasks *)
(* return afterwards does not change it.                                   *)
(***************************************************************************)
C28_ReturnsFirstResult ==
    /\ [](HasReturned /\ ResultTaken =>
            /\ Finished(FirstFinisher)
            /\ runResult = FinalResult(FirstFinisher))
    /\ [][HasReturned => runResult' = runResult]_vars

\* Run has returned nil, the result of the first finisher, and a losing
\* task has delivered an error that is not filtered.
C28_Witness ==
    /\ HasReturned
    /\ ResultTaken
    /\ runResult = Nil
    /\ \E k \in 2..Len(results) :
          /\ results[k].val # Nil
          /\ results[k].task # FirstFinisher

(***************************************************************************)
(* C29: within one Run call the result of a task is logged at most once:   *)
(* once when its result after panic conversion and filtering is non-nil,   *)
(* not at all when it is nil, a filtered context.Canceled included, and    *)
(* not before the task has finished.                                       *)
(***************************************************************************)
C29_LoggedAtMostOnce ==
    \A i \in Tasks :
        /\ logged[i] <= 1
        /\ ~crashed /\ pc[i] \notin {"finished", "done"} => logged[i] = 0
        /\ Finished(i) => logged[i] = IF FinalResult(i) # Nil THEN 1 ELSE 0

\* One task returned context.Canceled, which was not logged, and another
\* an error, which was logged once.
C29_Witness ==
    \E i, j \in Tasks :
        /\ Finished(i)
        /\ raw[i] = Returned(Canceled)
        /\ logged[i] = 0
        /\ Finished(j)
        /\ raw[j] = Returned(RealError)
        /\ logged[j] = 1

(***************************************************************************)
(* The exclusion predicates of a constructed Service.  Main builds them    *)
(* with NewOptions(fns...) and gives them to the sentry client the Service *)
(* is bound to; the older NewService(sentryClient, app, fns...) built them *)
(* the same way into the Service itself.  Service.Run is then called any   *)
(* number of times.                                                        *)
(***************************************************************************)

\* The option functions a Service is constructed with.
BoundFns ==
    MainFns
    \cup {<< ReplaceFn(<< >>), AppendFn(IsPredicate(TestError)) >>,
          << AppendFn(IsPredicate(TestError)), ReplaceFn(<< >>) >>}

\* The Service has been constructed for the OptionsFns in mFns; Run not yet.
BoundServiceInit ==
    /\ RunIdle
    /\ FilterIdle
    /\ OptionsIdle
    /\ SigIdle
    /\ svcClient \in SentryClients
    /\ svcPc = "idle"
    /\ svcCtx = << >>
    /\ appCalls = << >>
    /\ appReturns = << >>
    /\ captured = << >>
    /\ svcReturns = << >>
    /\ mEntry = "none"
    /\ mParseErr = FALSE
    /\ mDSN = "dsn"
    /\ mClientErr = FALSE
    /\ mFns \in BoundFns
    /\ mApp = [kind |-> "none"]
    /\ mPc = "none"
    /\ mExit = -1
    /\ mExclude = NewOptions(mFns)
    /\ mClientCalls = << >>

boundServiceVars == << serviceVars, mainVars >>

BoundServiceSpec == BoundServiceInit /\ [][ServiceNext]_boundServiceVars

(***************************************************************************)
(* C31: the exclusion predicate sequence bound to a Service is fixed at    *)
(* construction.  It is, in every state, the result of applying the option *)
(* functions in order to the default sequence, and no step of a Service.Run*)
(* invocation, successful or failing, adds, removes or reorders a          *)
(* predicate.                                                              *)
(***************************************************************************)
C31_ExclusionsFixed ==
    /\ [](mExclude = ApplyOptionsFns(mFns, 1, DefaultPredicates))
    /\ [][mExclude' = mExclude]_boundServiceVars

\* Two invocations have ended, one failing and one successful, on a Service
\* whose option function appended a predicate to the defaults.
C31_Witness ==
    /\ Len(svcReturns) = 2
    /\ svcReturns[1] # Nil
    /\ svcReturns[2] = Nil
    /\ Len(mExclude) = Len(DefaultPredicates) + 1

(***************************************************************************)
(* C32: on every path of Main on which the sentry client was created (the  *)
(* paths returning 0 or 1), Flush and then Close are each called exactly   *)
(* once on it, in that order and only after Service.Run has returned; on   *)
(* the paths returning 2, 3 or 4 neither is called.                        *)
(***************************************************************************)
C32_FlushThenClose ==
    mEntry = "Main" =>
        /\ mExit \in {0, 1} => mClientCalls = << "Flush", "Close" >>
        /\ mExit \in {2, 3, 4} => mClientCalls = << >>
        /\ mClientCalls # << >> =>
              /\ svcClient = "sentryClient"
              /\ Len(svcReturns) = 1
              /\ svcPc = "idle"
        /\ ~Exited => mClientCalls = << >>

\* Main has returned 1 after Service.Run failed, with both calls made.
C32_Witness ==
    /\ mEntry = "Main"
    /\ mExit = 1
    /\ svcReturns # << >>
    /\ svcReturns[1] # Nil
    /\ Len(mClientCalls) = 2

(***************************************************************************)
(* contextWithSig(ctx): a context derived from ctx with context.WithCancel *)
(* and a goroutine that registers a channel of capacity 1 for SIGINT and   *)
(* SIGTERM, waits for a signal or for ctx to be done, and on its way out   *)
(* runs its deferred calls, close(signalCh) and then cancel().  The os     *)
(* delivers signals at any time; the signal package sends them without     *)
(* blocking to every channel registered with signal.Notify.                *)
(***************************************************************************)

\* Number of signals the process is sent.
MaxSignals == 3

\* os.Interrupt (which is syscall.SIGINT) and syscall.SIGTERM.
Signals == {"SIGINT", "SIGTERM"}

\* Everything but the state of a contextWithSig call.
notSigVars == << vars, filterVars, serviceVars, optionsVars, mainVars >>

\* contextWithSig(ctx) has returned and its goroutine has not run yet; ctx
\* may be done already, and then so is the context derived from it.
SigInit ==
    /\ RunIdle
    /\ FilterIdle
    /\ ServiceIdle
    /\ OptionsIdle
    /\ MainIdle
    /\ sigParentDone \in BOOLEAN
    /\ sigCtxDone = sigParentDone
    /\ sigPc = "spawned"
    /\ sigChan = << >>
    /\ sigChanClosed = FALSE
    /\ sigNotified = FALSE
    /\ sigGot = "none"
    /\ sigArrived = 0
    /\ sigDelivered = 0
    /\ sigProc = "running"

\* The owner of ctx cancels it (or its deadline passes); the context derived
\* from it with WithCancel is done with it.
ParentDone ==
    /\ sigProc = "running"
    /\ ~sigParentDone
    /\ sigParentDone' = TRUE
    /\ sigCtxDone' = TRUE
    /\ UNCHANGED << sigPc, sigChan, sigChanClosed, sigNotified, sigGot,
                    sigArrived, sigDelivered, sigProc >>
    /\ UNCHANGED notSigVars

\* The goroutine makes signalCh and registers it with signal.Notify.
WatcherNotify ==
    /\ sigProc = "running"
    /\ sigPc = "spawned"
    /\ sigNotified' = TRUE
    /\ sigPc' = "select"
    /\ UNCHANGED << sigParentDone, sigCtxDone, sigChan, sigChanClosed,
                    sigGot, sigArrived, sigDelivered, sigProc >>
    /\ UNCHANGED notSigVars

\* The select statement takes a ready case: a signal from signalCh, or
\* ctx.Done().  The deferred calls are then due.
WatcherSelect ==
    /\ sigProc = "running"
    /\ sigPc = "select"
    /\ \/ /\ sigChan # << >>
          /\ sigGot' = Head(sigChan)
          /\ sigChan' = Tail(sigChan)
       \/ /\ sigParentDone
          /\ UNCHANGED << sigGot, sigChan >>
    /\ sigPc' = "return"
    /\ UNCHANGED << sigParentDone, sigCtxDone, sigChanClosed, sigNotified,
                    sigArrived, sigDelivered, sigProc >>
    /\ UNCHANGED notSigVars

\* The first deferred call to run: close(signalCh).  The channel stays
\* registered: the goroutine never calls signal.Stop.
WatcherClose ==
    /\ sigProc = "running"
    /\ sigPc = "return"
    /\ sigChanClosed' = TRUE
    /\ sigPc' = "closed"
    /\ UNCHANGED << sigParentDone, sigCtxDone, sigChan, sigNotified, sigGot,
                    sigArrived, sigDelivered, sigProc >>
    /\ UNCHANGED notSigVars

\* The last deferred call to run: cancel(), of the derived context only.
WatcherCancel ==
    /\ sigProc = "running"
    /\ sigPc = "closed"
    /\ sigCtxDone' = TRUE
    /\ sigPc' = "done"
    /\ UNCHANGED << sigParentDone, sigChan, sigChanClosed, sigNotified,
                    sigGot, sigArrived, sigDelivered, sigProc >>
    /\ UNCHANGED notSigVars

\* The process is sent the signal sig.  Before signal.Notify the signal has
\* its default effect and ends the process.  After it the signal package
\* sends sig to signalCh without blocking: the signal is dropped when the
\* buffer is full, and the send panics when signalCh has been closed.
SignalArrives(sig) ==
    /\ sigProc = "running"
    /\ sigArrived < MaxSignals
    /\ sigArrived' = sigArrived + 1
    /\ IF ~sigNotified
       THEN /\ sigProc' = "killed"
            /\ UNCHANGED << sigChan, sigDelivered >>
       ELSE IF sigChanClosed
       THEN /\ sigProc' = "panicked"
            /\ UNCHANGED << sigChan, sigDelivered >>
       ELSE IF Len(sigChan) < 1
       THEN /\ sigChan' = Append(sigChan, sig)
            /\ sigDelivered' = sigDelivered + 1
            /\ UNCHANGED sigProc
       ELSE UNCHANGED << sigChan, sigDelivered, sigProc >>
    /\ UNCHANGED << sigParentDone, sigCtxDone, sigPc, sigChanClosed,
                    sigNotified, sigGot >>
    /\ UNCHANGED notSigVars

SigNext ==
    \/ ParentDone
    \/ WatcherNotify
    \/ WatcherSelect
    \/ WatcherClose
    \/ WatcherCancel
    \/ \E sig \in Signals : SignalArrives(sig)

SigSpec == SigInit /\ [][SigNext]_sigVars

\* The goroutine is scheduled as long as it has a step to take.
SigFairness ==
    /\ WF_sigVars(WatcherNotify)
    /\ WF_sigVars(WatcherSelect)
    /\ WF_sigVars(WatcherClose)
    /\ WF_sigVars(WatcherCancel)

SigFairSpec == SigSpec /\ SigFairness

\* A shutdown signal has been received through signalCh.
SignalReceived == sigDelivered > 0

(***************************************************************************)
(* C34 as stated: in contextWithSig no signal is ever delivered to the     *)
(* signal channel after that channel has been closed, however the exit of  *)
(* the watcher goroutine interleaves with later signals.                   *)
(***************************************************************************)
C34_NoSendAfterClose ==
    [][~(sigChanClosed /\ sigNotified /\ sigArrived' # sigArrived)]_sigVars

(***************************************************************************)
(* C33 as stated: the context contextWithSig returns is done if and only   *)
(* if a shutdown signal has been received or the parent context is done;   *)
(* once the parent is done or a signal has arrived the returned context is *)
(* eventually cancelled; and cancelling the returned context never cancels *)
(* the parent.                                                             *)
(***************************************************************************)
C33_DoneOnSignalOrParent ==
    /\ [](sigCtxDone => SignalReceived \/ sigParentDone)
    /\ [](sigParentDone => sigCtxDone)
    /\ (SignalReceived \/ sigParentDone) ~> sigCtxDone
    /\ [][sigPc' # sigPc => sigParentDone' = sigParentDone]_sigVars

(***************************************************************************)
(* C35: Run cancels only the child context its runner derived.  A step     *)
(* that changes the state of the context given to Run is a step of that    *)
(* context's owner: it leaves Run, its runner and every task where they    *)
(* are.  So after Run returned because a task finished, the context given  *)
(* to Run is still not cancelled unless its owner cancelled it.            *)
(***************************************************************************)
C35_ParentNotCancelledByRun ==
    [][parentErr' # parentErr =>
          /\ parentErr = Nil
          /\ << runPc, runResult, cancelCount, launched, pc, raw, results,
                pending >>'
               = << runPc, runResult, cancelCount, launched, pc, raw,
                    results, pending >>]_vars

\* Run has returned after a task finished, the child context was cancelled
\* by the runner and the context given to Run is still live.
C35_Witness ==
    /\ HasReturned
    /\ ResultTaken
    /\ cancelCount = 1
    /\ childErr = Canceled
    /\ parentErr = Nil

(***************************************************************************)
(* Run called again with the list it was given before: the caller passes   *)
(* its slice with funcs... a second time.                                  *)
(***************************************************************************)

\* Number of times Run is called with the same list.
MaxRunCalls == 2

\* Run has returned and its caller gets ready to call it again with the same
\* list and the same context; the list holds what the last call left in it.
RunAgain ==
    /\ ~crashed
    /\ runPc = "returned"
    /\ \A i \in Tasks : wraps[i] < MaxRunCalls
    /\ runPc' = "idle"
    /\ childErr' = Nil
    /\ cancelCount' = 0
    /\ runResult' = Nil
    /\ launched' = 0
    /\ pc' = [i \in Tasks |-> "unstarted"]
    /\ handle' = [i \in Tasks |-> "none"]
    /\ raw' = [i \in Tasks |-> NotRun]
    /\ sawDone' = [i \in Tasks |-> FALSE]
    /\ pending' = [i \in Tasks |-> Nil]
    /\ results' = << >>
    /\ logged' = [i \in Tasks |-> 0]
    /\ launchedAfter' = [i \in Tasks |-> 0]
    /\ UNCHANGED << funcs, wraps, parentErr, crashed >>
    /\ UNCHANGED notRunVars

RerunNext ==
    \/ Next
    \/ RunAgain

RerunSpec == FairInit /\ [][RerunNext]_vars

(***************************************************************************)
(* C36: Run overwrites the list it was given in place.  Every call of Run  *)
(* leaves each element i as the wrapped form of what element i was before  *)
(* the call, with length and order unchanged, and nothing else changes the *)
(* list; so in a second call with the same list every function runs       *)
(* wrapped twice and each non-nil result of a function is logged twice.    *)
(***************************************************************************)
C36_WrappedInPlace ==
    /\ [][/\ funcs' = funcs
          /\ DOMAIN wraps' = DOMAIN funcs
          /\ IF runPc = "idle" /\ runPc' # "idle"
             THEN \A i \in Tasks : wraps'[i] = wraps[i] + 1
             ELSE wraps' = wraps]_vars
    /\ [](\A i \in Tasks :
            Finished(i) =>
               logged[i] = IF FinalResult(i) # Nil THEN wraps[i] ELSE 0)

\* In the second call a function has returned an error and it was logged
\* twice.
C36_Witness ==
    \E i \in Tasks :
        /\ wraps[i] = 2
        /\ Finished(i)
        /\ raw[i] = Returned(RealError)
        /\ logged[i] = 2

(***************************************************************************)
(* C37: Run filters only context.Canceled, not context.DeadlineExceeded.   *)
(* When the first function to finish returns an error that is or wraps     *)
(* context.DeadlineExceeded and does not wrap context.Canceled, Run        *)
(* returns that error unchanged; and the wrappers Run puts around a        *)
(* function pass every such error through, at any wrapping depth.          *)
(***************************************************************************)
C37_DeadlineNotFiltered ==
    /\ HasReturned /\ ResultTaken
         /\ raw[FirstFinisher].kind = "ret"
         /\ Is(raw[FirstFinisher].val, DeadlineExceeded)
         /\ ~Is(raw[FirstFinisher].val, Canceled)
       => runResult = raw[FirstFinisher].val
    /\ \A n \in 0..MaxWrapDepth :
          WrapFunc(Returned(WrapN(DeadlineExceeded, n))).val
             = WrapN(DeadlineExceeded, n)

\* Run has returned context.DeadlineExceeded, the error its first finisher
\* returned.
C37_Witness ==
    /\ HasReturned
    /\ ResultTaken
    /\ raw[FirstFinisher] = Returned(DeadlineExceeded)
    /\ runResult = DeadlineExceeded

(***************************************************************************)
(* C38: Main invokes the Application's Run at most once, and only when     *)
(* parsing succeeded, the DSN is non-nil and the sentry client was         *)
(* created.  When Main returns 2, 3 or 4 the Application's Run was never   *)
(* invoked; when it returns 3 or 4 no sentry client was created.           *)
(***************************************************************************)
C38_AppRunGuarded ==
    mEntry = "Main" =>
        /\ Len(appCalls) <= 1
        /\ appCalls # << >> =>
              /\ ~mParseErr
              /\ mDSN = "dsn"
              /\ ~mClientErr
              /\ appCalls[1].client = "sentryClient"
        /\ mExit \in {2, 3, 4} => appCalls = << >>
        /\ mExit \in {3, 4} => svcClient = "none" /\ mExclude = << >>

\* Main has run the Application once and returned after it.
C38_Witness ==
    /\ mEntry = "Main"
    /\ Exited
    /\ Len(appCalls) = 1
    /\ mExit \in {0, 1}

(***************************************************************************)
(* C39: FilterErrors is idempotent and has an identity.  The function      *)
(* FilterErrors(FilterErrors(f, S...), S...) gives, for every result of f, *)
(* what FilterErrors(f, S...) gives; FilterErrors(f) with no error to      *)
(* filter gives exactly the result of f; and every call of a function      *)
(* FilterErrors returned calls f exactly once, with the handle the call    *)
(* received.                                                               *)
(***************************************************************************)
C39_FilterIdempotent ==
    /\ fTwice.kind # "none" => fTwice = fOut
    /\ FilterCalled /\ fFiltered = {} => fOut = fResult
    /\ fCalls = (IF fOut.kind # "none" THEN 1 ELSE 0)
                  + (IF fTwice.kind # "none" THEN 1 ELSE 0)
    /\ Len(fInnerCtx) = fCalls
    /\ \A k \in 1..Len(fInnerCtx) : fInnerCtx[k] = fCtx

\* Both functions have been called for an f that returns an error wrapping
\* a filtered one, and for an f whose error passes with nothing to filter.
C39_Witness ==
    /\ fTwice.kind # "none"
    /\ fCalls = 2
    /\ \/ /\ fResult.val = WrapN(Canceled, 1)
          /\ Canceled \in fFiltered
          /\ fTwice.val = Nil
       \/ /\ fResult.val = RealError
          /\ fFiltered = {}
          /\ fTwice.val = RealError

====
